---- MODULE Spec2Model ----
\* State-machine model of the hotellapp booking / pricing / billing core
\* (models.py, signals.py, presenters.py and the handlers that call them).
\* Money is counted in cents, quantities and VAT rates in hundredths, dates as
\* day numbers: day 1 is 2024-06-01 (a Saturday).
EXTENDS Integers, Sequences, FiniteSets, TLC

\* ---------------------------------------------------------------- bounds
MaxRes == 2
MaxSeasons == 2
MaxDate == 3
MaxLineEdits == 1
MaxHandlers == 2

\* ------------------------------------------------------ program constants
BOOKED == "booked"
CHECKED_IN == "checked_in"
CHECKED_OUT == "checked_out"
CANCELED == "canceled"
ReservationStatus == {BOOKED, CHECKED_IN, CHECKED_OUT, CANCELED}

AVAILABLE == "available"
OCCUPIED == "occupied"
CLEANING == "cleaning"
RoomStatus == {AVAILABLE, OCCUPIED, CLEANING}

DefaultSeries == "XB"
DefaultVatRate == 900
OneQuantity == 100

\* The two rooms of the test fixtures: 101 (double, 100.00) and 102 (single, 50.00).
Rooms == {101, 102}
RoomType == [r \in Rooms |-> IF r = 101 THEN "double" ELSE "single"]
RoomPrice == [r \in Rooms |-> IF r = 101 THEN 10000 ELSE 5000]

Dates == 1..MaxDate
None == 0

\* Breakfast settings a reservation form can carry: (breakfast_included, breakfast_price).
BreakfastChoices == {<<FALSE, 0>>, <<TRUE, 1000>>, <<TRUE, 0>>}

\* New unit prices an operator types into an invoice line.
LinePrices == {5000, 50}

\* Rate-season tables the store starts with (scenario 3 of the specification).
TypeSeason == [pk |-> 1, room |-> None, room_type |-> "double", start_date |-> 1,
               end_date |-> 10, price |-> 15000, apply_on |-> "weekends", active |-> TRUE]
RoomSeason == [pk |-> 2, room |-> 101, room_type |-> "", start_date |-> 2,
               end_date |-> 3, price |-> 12000, apply_on |-> "all", active |-> TRUE]
SeasonTables == {{}, {TypeSeason}, {TypeSeason, RoomSeason}}

\* Further RateSeason rows an operator can enter: a second room season that
\* starts with RoomSeason at another price, one that starts earlier, an inactive
\* one, a weekdays-only one, and a type season that ends before the last day.
RoomSeasonSameStart == [pk |-> 3, room |-> 101, room_type |-> "", start_date |-> 2,
                        end_date |-> 4, price |-> 13000, apply_on |-> "all", active |-> TRUE]
RoomSeasonEarlier == [pk |-> 4, room |-> 101, room_type |-> "", start_date |-> 1,
                      end_date |-> 3, price |-> 11000, apply_on |-> "all", active |-> TRUE]
RoomSeasonInactive == [pk |-> 5, room |-> 102, room_type |-> "", start_date |-> 1,
                       end_date |-> 3, price |-> 9000, apply_on |-> "all", active |-> FALSE]
RoomSeasonWeekdays == [pk |-> 6, room |-> 102, room_type |-> "", start_date |-> 1,
                       end_date |-> 3, price |-> 7000, apply_on |-> "weekdays", active |-> TRUE]
TypeSeasonShort == [pk |-> 7, room |-> None, room_type |-> "single", start_date |-> 1,
                    end_date |-> 2, price |-> 6000, apply_on |-> "all", active |-> TRUE]
SeasonRows == {TypeSeason, RoomSeason, RoomSeasonSameStart, RoomSeasonEarlier,
               RoomSeasonInactive, RoomSeasonWeekdays, TypeSeasonShort}

\* The clients of the test fixtures, with the values an invoice's billing
\* snapshot is taken from, and the values a client form can change them to.
DefaultClient == 1
InitialClients ==
  {[pk |-> 1, name |-> "Ana Pop", tax_id |-> "", address |-> ""],
   [pk |-> 2, name |-> "Ion Ionescu", tax_id |-> "", address |-> ""]}
BillingChoices ==
  {[name |-> "Ana Popescu", tax_id |-> "", address |-> "Str. 1"],
   [name |-> "ACME SRL", tax_id |-> "RO123", address |-> "Str. 2"]}

\* No handler is part-way, and no availability answer was given yet.
NoProcs == <<>>
NoListing == [start |-> None, end |-> None, type |-> "", rooms |-> {}]

\* No call of get_price_for_date made yet.
NoQuote == [room |-> None, day |-> None, price |-> 0]

\* ------------------------------------------------------------------ state
VARIABLES
  room_status,   \* Room.status of every room
  seasons,       \* RateSeason rows
  reservations,  \* Reservation rows
  invoices,      \* Invoice rows
  lines,         \* InvoiceLine rows of every invoice, in id order
  next_pk,       \* next primary key of the reservation and invoice tables
  line_edits,    \* number of direct InvoiceLine edits made so far
  quote,         \* the last call of Room.get_price_for_date and the price it returned
  audits,        \* NightAudit rows
  rooms,         \* the Room rows that exist (by number)
  clients,       \* Client rows
  procs,         \* the request handlers that are part-way through their steps
  issued,        \* every (series, number, invoice pk) an invoice was ever stored with
  listing,       \* the last answer of the availability API
  response       \* the last handler and how it ended: ok, refused, form_invalid or the exception

vars == <<room_status, seasons, reservations, invoices, lines, next_pk, line_edits, quote, audits,
         rooms, clients, procs, issued, listing, response>>

\* The variables that only the stepwise handlers, the number log and the
\* availability API write.
aux == <<procs, issued, listing>>

\* The store as one value, so that the steps of a handler can be composed.
DB == [room_status |-> room_status, reservations |-> reservations,
       invoices |-> invoices, lines |-> lines, next_pk |-> next_pk, clients |-> clients]

Commit(db) ==
  /\ room_status' = db.room_status
  /\ reservations' = db.reservations
  /\ invoices' = db.invoices
  /\ lines' = db.lines
  /\ next_pk' = db.next_pk
  /\ clients' = db.clients

Rollback == UNCHANGED <<room_status, reservations, invoices, lines, next_pk, clients>>

\* The element of a one-element set: Only({e(x) : x \in {v}}) is e(v), with v
\* evaluated once.
Only(S) == CHOOSE x \in S : TRUE

Respond(op, result) == response' = [op |-> op, result |-> result]

\* ------------------------------------------------------------ arithmetic
\* Decimal.quantize under the default decimal context (ROUND_HALF_EVEN):
\* n / d rounded to an integer, n >= 0, d > 0.
Quantize(n, d) ==
  LET q == n \div d
      r == n % d
  IN  IF 2 * r < d THEN q
      ELSE IF 2 * r > d THEN q + 1
      ELSE IF q % 2 = 0 THEN q ELSE q + 1

RECURSIVE SumTotals(_)
SumTotals(s) == IF s = <<>> THEN 0 ELSE Head(s).total + SumTotals(Tail(s))

\* date.weekday(): Monday is 0; day 1 is a Saturday.
weekday(d) == (d + 4) % 7

\* ----------------------------------------------------------- Rate Resolver
\* QuerySet.order_by("-start_date").first(): a row with the latest start_date.
\* (The tables of SeasonTables hold no two matching rows with equal start_date.)
first_by_latest_start(cands) ==
  CHOOSE s \in cands : \A t \in cands : t.start_date <= s.start_date

\* The rows order_by("-start_date").first() can return: the ordering says
\* nothing about rows with the same start_date, so any of them can come first.
first_rows(cands) == {s \in cands : \A t \in cands : t.start_date <= s.start_date}

\* The filter of get_price_for_date without the active flag.
season_matches_ignoring_active(s, d) ==
  /\ s.start_date <= d
  /\ s.end_date >= d
  /\ s.apply_on \in {"all"} \cup (IF weekday(d) < 5 THEN {"weekdays"} ELSE {"weekends"})

\* The filter shared by the two queries of get_price_for_date.
season_matches(s, d) ==
  /\ s.active
  /\ s.start_date <= d
  /\ s.end_date >= d
  /\ s.apply_on \in {"all"} \cup (IF weekday(d) < 5 THEN {"weekdays"} ELSE {"weekends"})

\* Room.get_price_for_date as the set of prices a call can return.
price_outcomes(ss, room, d) ==
  LET room_specific == {s \in ss : s.room = room /\ season_matches(s, d)}
      room_type == {s \in ss : s.room = None /\ s.room_type = RoomType[room]
                                 /\ season_matches(s, d)}
  IN  IF room_specific # {} THEN {s.price : s \in first_rows(room_specific)}
      ELSE IF room_type # {} THEN {s.price : s \in first_rows(room_type)}
      ELSE {RoomPrice[room]}

\* Room.get_price_for_date
get_price_for_date(ss, room, d) ==
  LET allowed_apply_on == {"all"} \cup (IF weekday(d) < 5 THEN {"weekdays"} ELSE {"weekends"})
      room_specific == {s \in ss : /\ s.active
                                   /\ s.room = room
                                   /\ s.start_date <= d
                                   /\ s.end_date >= d
                                   /\ s.apply_on \in allowed_apply_on}
      room_type == {s \in ss : /\ s.active
                               /\ s.room = None
                               /\ s.room_type = RoomType[room]
                               /\ s.start_date <= d
                               /\ s.end_date >= d
                               /\ s.apply_on \in allowed_apply_on}
  IN  IF room_specific # {} THEN first_by_latest_start(room_specific).price
      ELSE IF room_type # {} THEN first_by_latest_start(room_type).price
      ELSE RoomPrice[room]

\* ---------------------------------------------------- Reservation Validator
\* nights counted with both end days.
nights_inclusive(res) ==
  IF res.check_out - res.check_in + 1 > 0 THEN res.check_out - res.check_in + 1 ELSE 0

\* Reservation.nights
nights(res) == IF res.check_out - res.check_in > 0 THEN res.check_out - res.check_in ELSE 0

\* The overlap query with checked_in left out of the status filter.
overlapping_booked_only(rs, self) ==
  {o \in rs : /\ o.room = self.room
              /\ o.pk # self.pk
              /\ o.status \in {BOOKED}
              /\ o.check_in < self.check_out
              /\ o.check_out > self.check_in}

\* The overlap query of Reservation.clean: active reservations of the same
\* room, other than the instance itself, that intersect its half-open interval.
overlapping(rs, self) ==
  {o \in rs : /\ o.room = self.room
              /\ o.pk # self.pk
              /\ o.status \in {BOOKED, CHECKED_IN}
              /\ o.check_in < self.check_out
              /\ o.check_out > self.check_in}

\* CheckConstraint check_in_before_check_out of the reservation table.
check_in_before_check_out(self) == self.check_in < self.check_out

\* Reservation.clean: TRUE when no ValidationError is raised.
Reservation_clean(rs, self) ==
  /\ ~(self.check_in >= self.check_out)
  /\ overlapping(rs, self) = {}

\* ------------------------------------------------------------ Billing Engine
\* InvoiceLine.compute
InvoiceLine_compute(line) ==
  LET base == Quantize(line.quantity * line.unit_price, 100)
      vat == Quantize(base * line.vat_rate, 10000)
      total == base + vat
  IN  <<base, vat, total>>

\* InvoiceLine.save: the derived fields are recomputed, the row is written.
InvoiceLine_save(line) ==
  LET c == InvoiceLine_compute(line)
  IN  [line EXCEPT !.total_excl_vat = c[1], !.vat_amount = c[2], !.total = c[3]]

NewLine(kind, room, day, unit_price) ==
  InvoiceLine_save([kind |-> kind, room |-> room, day |-> day,
                    quantity |-> OneQuantity, unit_price |-> unit_price,
                    vat_rate |-> DefaultVatRate,
                    total_excl_vat |-> 0, vat_amount |-> 0, total |-> 0])

\* The loop of Invoice.build_default_lines from night i on.
RECURSIVE night_lines(_, _, _)
night_lines(ss, res, i) ==
  IF i >= nights(res) THEN <<>>
  ELSE LET day == res.check_in + i
           price == get_price_for_date(ss, res.room, day)
           acc == <<NewLine("Accommodation", res.room, day, price)>>
           bf == IF res.breakfast_included /\ res.breakfast_price # 0 /\ res.breakfast_price > 0
                 THEN <<NewLine("Breakfast", None, day, res.breakfast_price)>>
                 ELSE <<>>
       IN  acc \o bf \o night_lines(ss, res, i + 1)

\* A generation whose overwrite keeps the previous lines.
build_default_lines_appending(ss, res, existing, overwrite) ==
  IF ~overwrite /\ existing # <<>> THEN existing
  ELSE existing \o night_lines(ss, res, 0)

\* Invoice.build_default_lines: the lines of the invoice afterwards.
build_default_lines(ss, res, existing, overwrite) ==
  IF ~overwrite /\ existing # <<>> THEN existing
  ELSE night_lines(ss, res, 0)

\* Invoice.compute_total
compute_total(ls) == SumTotals(ls)

\* Numbering that hands out the largest number of the series itself.
assign_last_number(invs, inv) ==
  IF inv.number = None
  THEN LET nums == {i.number : i \in {j \in invs : j.series = inv.series}}
       IN  IF nums = {} THEN 0 ELSE CHOOSE n \in nums : \A m \in nums : m <= n
  ELSE inv.number

\* Invoice.assign_sequential_number
assign_sequential_number(invs, inv) ==
  IF inv.number = None
  THEN LET nums == {i.number : i \in {j \in invs : j.series = inv.series}}
           last == IF nums = {} THEN 0 ELSE CHOOSE n \in nums : \A m \in nums : m <= n
       IN  last + 1
  ELSE inv.number

\* The unique constraints an INSERT or UPDATE of an invoice row must satisfy:
\* OneToOneField(reservation) and uniq_invoice_series_number.
invoice_row_allowed(invs, row) ==
  /\ \A i \in invs : i.pk # row.pk => i.reservation # row.reservation
  /\ \A i \in invs : i.pk # row.pk => ~(i.series = row.series /\ i.number = row.number)

\* Invoice.save. The result carries ok = FALSE (IntegrityError) and the store
\* as it was when the row violates a unique constraint.
Invoice_save(db, ss, inv) ==
  LET creating == inv.pk = None
      pk == IF creating THEN db.next_pk.invoice ELSE inv.pk
      res == CHOOSE r \in db.reservations : r.pk = inv.reservation
      old_lines == IF creating THEN <<>> ELSE db.lines[pk]
      others == {i \in db.invoices : i.pk # pk}
  IN  Only({
        IF ~invoice_row_allowed(db.invoices, row)
        THEN [ok |-> FALSE, db |-> db]
        ELSE Only({
          [ok |-> TRUE,
           db |-> [db EXCEPT !.invoices = others \cup {[row EXCEPT !.total = compute_total(new_lines)]},
                             !.lines = [p \in DOMAIN db.lines \cup {pk} |->
                                          IF p = pk THEN new_lines ELSE db.lines[p]],
                             !.next_pk = IF creating
                                         THEN [db.next_pk EXCEPT !.invoice = pk + 1]
                                         ELSE db.next_pk]]
          : new_lines \in {IF creating /\ old_lines = <<>>
                           THEN build_default_lines(ss, res, old_lines, TRUE)
                           ELSE old_lines} })
        : row \in {[inv EXCEPT !.pk = pk, !.number = assign_sequential_number(db.invoices, inv)]} })

\* Invoice.fill_billing_from_client: the billing snapshot of the invoice is
\* set to the client's current billing name, tax id and address.
fill_billing_from_client(inv, client) ==
  [inv EXCEPT !.billing_name = client.name,
              !.billing_tax_id = client.tax_id,
              !.billing_address = client.address]

\* Invoice.objects.create(reservation=..., client=...): an unlocked invoice
\* that carries the client's billing snapshot.
Invoice_create(db, ss, res) ==
  Invoice_save(db, ss,
    fill_billing_from_client(
      [pk |-> None, reservation |-> res.pk, client |-> res.client, series |-> DefaultSeries,
       number |-> None, total |-> 0, locked |-> FALSE,
       billing_name |-> "", billing_tax_id |-> "", billing_address |-> ""],
      CHOOSE c \in db.clients : c.pk = res.client))

\* ------------------------------------------------- Room State Synchronizer
\* _reservation_track_old_status (pre_save): the stored status, None for a new row.
reservation_track_old_status(rs, instance) ==
  IF instance.pk # None /\ \E o \in rs : o.pk = instance.pk
  THEN (CHOOSE o \in rs : o.pk = instance.pk).status
  ELSE "None"

\* A synchronizer whose checked_out branch frees the room instead of sending it to cleaning.
sync_room_status_frees_on_check_out(db, instance, old_status) ==
  LET room == instance.room
      has_checked_in == \E o \in db.reservations : o.room = room /\ o.status = CHECKED_IN
  IN  IF old_status = instance.status THEN db.room_status
      ELSE IF instance.status = CHECKED_IN
           THEN [db.room_status EXCEPT ![room] = OCCUPIED]
      ELSE IF instance.status = CHECKED_OUT
           THEN [db.room_status EXCEPT ![room] = AVAILABLE]
      ELSE IF instance.status = CANCELED /\ ~has_checked_in
           THEN [db.room_status EXCEPT ![room] = AVAILABLE]
      ELSE db.room_status

\* The room part of _reservation_post_save: the room status afterwards.
sync_room_status(db, instance, old_status) ==
  LET room == instance.room
      has_checked_in == \E o \in db.reservations : o.room = room /\ o.status = CHECKED_IN
  IN  IF old_status = instance.status THEN db.room_status
      ELSE IF instance.status = CHECKED_IN
           THEN [db.room_status EXCEPT ![room] = OCCUPIED]
      ELSE IF instance.status = CHECKED_OUT
           THEN [db.room_status EXCEPT ![room] = CLEANING]
      ELSE IF instance.status = CANCELED /\ ~has_checked_in
           THEN [db.room_status EXCEPT ![room] = AVAILABLE]
      ELSE db.room_status

\* A hook whose existence test is inverted.
hook_creates_invoice_inverted(db, instance, created) ==
  created /\ \E i \in db.invoices : i.reservation = instance.pk

\* The invoice part of _reservation_post_save: created and no invoice yet.
hook_creates_invoice(db, instance, created) ==
  created /\ ~\E i \in db.invoices : i.reservation = instance.pk

\* _reservation_post_save: invoice first, then the room. An IntegrityError of
\* the invoice insert leaves the handler before the room is synchronised.
reservation_post_save(db, ss, instance, created, old_status) ==
  Only({
    IF ~inv.ok THEN [ok |-> FALSE, error |-> "IntegrityError", db |-> inv.db]
    ELSE [ok |-> TRUE, error |-> "ok",
          db |-> [inv.db EXCEPT !.room_status = sync_room_status(inv.db, instance, old_status)]]
    : inv \in {IF hook_creates_invoice(db, instance, created)
               THEN Invoice_create(db, ss, instance)
               ELSE [ok |-> TRUE, db |-> db]} })

\* Reservation.save: full_clean, pre_save, the write, post_save.
Reservation_save(db, ss, instance) ==
  LET created == instance.pk = None
      pk == IF created THEN db.next_pk.reservation ELSE instance.pk
      old_status == reservation_track_old_status(db.reservations, instance)
  IN  IF ~Reservation_clean(db.reservations, instance)
      THEN [ok |-> FALSE, error |-> "ValidationError", db |-> db]
      ELSE IF ~check_in_before_check_out(instance)
      THEN [ok |-> FALSE, error |-> "IntegrityError", db |-> db]
      ELSE Only({
             reservation_post_save(written, ss, [instance EXCEPT !.pk = pk], created, old_status)
             : written \in {[db EXCEPT
                               !.reservations = {o \in db.reservations : o.pk # pk}
                                                  \cup {[instance EXCEPT !.pk = pk]},
                               !.next_pk = IF created
                                           THEN [db.next_pk EXCEPT !.reservation = pk + 1]
                                           ELSE db.next_pk]} })

\* _reservation_post_delete
reservation_post_delete_any_status(db, instance) ==
  LET room == instance.room
      has_checked_in == \E o \in db.reservations : o.room = room /\ o.status = CHECKED_IN
  IN  IF ~has_checked_in
      THEN [db.room_status EXCEPT ![room] = AVAILABLE]
      ELSE db.room_status

reservation_post_delete(db, instance) ==
  LET room == instance.room
      has_checked_in == \E o \in db.reservations : o.room = room /\ o.status = CHECKED_IN
  IN  IF ~has_checked_in /\ db.room_status[room] \notin {CLEANING, AVAILABLE}
      THEN [db.room_status EXCEPT ![room] = AVAILABLE]
      ELSE db.room_status

\* Model.delete of a reservation: the CASCADE to its invoice and lines, then post_delete.
Reservation_delete(db, instance) ==
  LET gone == {i \in db.invoices : i.reservation = instance.pk}
      kept == [db EXCEPT !.reservations = db.reservations \ {instance},
                         !.invoices = db.invoices \ gone,
                         !.lines = [p \in DOMAIN db.lines \ {i.pk : i \in gone} |-> db.lines[p]]]
  IN  [kept EXCEPT !.room_status = reservation_post_delete(kept, instance)]

\* ------------------------------------------------------------ initial state
Init ==
  /\ room_status = [r \in Rooms |-> AVAILABLE]
  /\ seasons = {}
  /\ reservations = {}
  /\ invoices = {}
  /\ lines = <<>>
  /\ next_pk = [reservation |-> 1, invoice |-> 1]
  /\ line_edits = 0
  /\ quote = NoQuote
  /\ audits = {}
  /\ rooms = Rooms
  /\ clients = InitialClients
  /\ procs = NoProcs
  /\ issued = {}
  /\ listing = NoListing
  /\ response = [op |-> "none", result |-> "ok"]

CandidateOf(client, room, ci, co, bf, status) ==
  [pk |-> None, client |-> client, room |-> room, check_in |-> ci, check_out |-> co,
   status |-> status, breakfast_included |-> bf[1], breakfast_price |-> bf[2]]

\* A candidate of the fixture's client.
Candidate(room, ci, co, bf, status) == CandidateOf(DefaultClient, room, ci, co, bf, status)

\* ------------------------------------------------------------------ actions
\* Reservation.objects.create(...) outside any transaction, as the tests do:
\* the reservation row is committed before the post_save hook runs.
ReservationCreateOf(client, room, ci, co, bf, status) ==
  /\ next_pk.reservation <= MaxRes
  /\ \E out \in {Reservation_save(DB, seasons, CandidateOf(client, room, ci, co, bf, status))} :
       /\ Commit(out.db)
       /\ Respond("ReservationCreate", out.error)
  /\ UNCHANGED <<seasons, line_edits, quote, audits, rooms, aux>>

ReservationCreate(room, ci, co, bf, status) ==
  ReservationCreateOf(DefaultClient, room, ci, co, bf, status)

\* ReservationForm.is_valid: ReservationForm.clean validates a fresh instance
\* (no pk) built from the cleaned data, then the model instance is validated.
ReservationForm_is_valid(rs, instance) ==
  /\ Reservation_clean(rs, [instance EXCEPT !.pk = None])
  /\ Reservation_clean(rs, instance)

\* ReservationCreateView.form_valid -> ReservationPresenter.create_reservation
PresenterCreate(room, ci, co, bf) ==
  /\ next_pk.reservation <= MaxRes
  /\ \E cand \in {Candidate(room, ci, co, bf, BOOKED)} :
       IF ~ReservationForm_is_valid(reservations, cand)
       THEN Rollback /\ Respond("PresenterCreate", "form_invalid")
       ELSE \E saved \in {Reservation_save(DB, seasons, cand)} :
              IF ~saved.ok
              THEN Rollback /\ Respond("PresenterCreate", saved.error)
              ELSE \E inv \in {Invoice_create(saved.db, seasons,
                                              [cand EXCEPT !.pk = next_pk.reservation])} :
                     IF ~inv.ok
                     THEN Rollback /\ Respond("PresenterCreate", "IntegrityError")
                     ELSE Commit(inv.db) /\ Respond("PresenterCreate", "ok")
  /\ UNCHANGED <<seasons, line_edits, quote, audits, rooms, aux>>

Stored(pk) == CHOOSE o \in reservations : o.pk = pk
PKs == {o.pk : o \in reservations}

\* A direct field edit of the status followed by save(), as in
\* test_direct_status_change_syncs_room_via_signals.
DirectStatusEdit(pk, status) ==
  /\ pk \in PKs
  /\ \E old \in {Stored(pk)} :
       /\ status # old.status
       /\ \E out \in {Reservation_save(DB, seasons, [old EXCEPT !.status = status])} :
            /\ Commit(out.db)
            /\ Respond("DirectStatusEdit", out.error)
  /\ UNCHANGED <<seasons, line_edits, quote, audits, rooms, aux>>

\* The admin change form of a reservation: room and dates edited, then save().
\* (Next edits the dates and keeps the room.)
AdminEdit(pk, room, ci, co) ==
  /\ pk \in PKs
  /\ \E old \in {Stored(pk)} :
       \E out \in {Reservation_save(DB, seasons,
                     [old EXCEPT !.room = room, !.check_in = ci, !.check_out = co])} :
         /\ Commit(out.db)
         /\ Respond("AdminEdit", out.error)
  /\ UNCHANGED <<seasons, line_edits, quote, audits, rooms, aux>>

\* ReservationUpdateView: ReservationForm bound to the stored instance.
ReservationUpdate(pk, room, ci, co, bf) ==
  /\ pk \in PKs
  /\ \E new \in {[Stored(pk) EXCEPT !.room = room, !.check_in = ci, !.check_out = co,
                                    !.breakfast_included = bf[1], !.breakfast_price = bf[2]]} :
       IF ~ReservationForm_is_valid(reservations, new)
       THEN Rollback /\ Respond("ReservationUpdate", "form_invalid")
       ELSE \E out \in {Reservation_save(DB, seasons, new)} :
              Commit(out.db) /\ Respond("ReservationUpdate", out.error)
  /\ UNCHANGED <<seasons, line_edits, quote, audits, rooms, aux>>

\* check_out guarded by check_in's test.
check_out_refused_as_check_in(res) == res.status \in {CANCELED, CHECKED_OUT}

\* The guards of the Presenter operations: TRUE when the operation is refused.
check_in_refused(res) == res.status \in {CANCELED, CHECKED_OUT}
check_out_refused(res) == res.status # CHECKED_IN
cancel_refused(res) == res.status = CANCELED

\* ReservationPresenter.check_in
CheckIn(pk) ==
  /\ pk \in PKs
  /\ \E old \in {Stored(pk)} :
       IF check_in_refused(old)
       THEN Rollback /\ Respond("CheckIn", "refused")
       ELSE \E out \in {Reservation_save(DB, seasons, [old EXCEPT !.status = CHECKED_IN])} :
              IF ~out.ok
              THEN Rollback /\ Respond("CheckIn", out.error)
              ELSE \E done \in {[out.db EXCEPT !.room_status[old.room] = OCCUPIED]} :
                     Commit(done) /\ Respond("CheckIn", "ok")
  /\ UNCHANGED <<seasons, line_edits, quote, audits, rooms, aux>>

\* ReservationPresenter.check_out
CheckOut(pk) ==
  /\ pk \in PKs
  /\ \E old \in {Stored(pk)} :
       IF check_out_refused(old)
       THEN Rollback /\ Respond("CheckOut", "refused")
       ELSE \E out \in {Reservation_save(DB, seasons, [old EXCEPT !.status = CHECKED_OUT])} :
              IF ~out.ok
              THEN Rollback /\ Respond("CheckOut", out.error)
              ELSE \E done \in {[out.db EXCEPT !.room_status[old.room] = CLEANING]} :
                     Commit(done) /\ Respond("CheckOut", "ok")
  /\ UNCHANGED <<seasons, line_edits, quote, audits, rooms, aux>>

\* The room update ReservationPresenter.cancel makes after the save.
cancel_room_status(db, room) ==
  IF db.room_status[room] # OCCUPIED
  THEN [db.room_status EXCEPT ![room] = AVAILABLE]
  ELSE db.room_status

\* ReservationPresenter.cancel
Cancel(pk) ==
  /\ pk \in PKs
  /\ \E old \in {Stored(pk)} :
       IF cancel_refused(old)
       THEN Rollback /\ Respond("Cancel", "refused")
       ELSE \E out \in {Reservation_save(DB, seasons, [old EXCEPT !.status = CANCELED])} :
              IF ~out.ok
              THEN Rollback /\ Respond("Cancel", out.error)
              ELSE \E done \in {[out.db EXCEPT !.room_status = cancel_room_status(out.db, old.room)]} :
                     Commit(done) /\ Respond("Cancel", "ok")
  /\ UNCHANGED <<seasons, line_edits, quote, audits, rooms, aux>>

\* ReservationPresenter.cancel as a step on the store, for the callers that
\* run it inside their own transaction.
presenter_cancel(db, ss, res) ==
  IF cancel_refused(res) THEN [ok |-> TRUE, error |-> "refused", db |-> db]
  ELSE Only({
         IF ~out.ok THEN [ok |-> FALSE, error |-> out.error, db |-> db]
         ELSE [ok |-> TRUE, error |-> "ok",
               db |-> [out.db EXCEPT !.room_status = cancel_room_status(out.db, res.room)]]
         : out \in {Reservation_save(db, ss, [res EXCEPT !.status = CANCELED])} })

\* ReservationPresenter.mark_room_cleaned
MarkRoomCleaned(room) ==
  /\ room_status' = [room_status EXCEPT ![room] = AVAILABLE]
  /\ Respond("MarkRoomCleaned", "ok")
  /\ UNCHANGED <<seasons, reservations, invoices, lines, next_pk, line_edits, quote, audits,
               rooms, clients, aux>>

\* ReservationDeleteView.delete
ReservationDelete(pk) ==
  /\ pk \in PKs
  /\ \E done \in {Reservation_delete(DB, Stored(pk))} : Commit(done)
  /\ Respond("ReservationDelete", "ok")
  /\ UNCHANGED <<seasons, line_edits, quote, audits, rooms, aux>>

InvoicePKs == {i.pk : i \in invoices}
StoredInvoice(pk) == CHOOSE i \in invoices : i.pk = pk

\* InvoiceLineAdmin change form: one line edited and saved with InvoiceLine.save.
InvoiceLineSave(inv, k, unit_price) ==
  /\ inv \in InvoicePKs
  /\ k \in 1..Len(lines[inv])
  /\ line_edits < MaxLineEdits
  /\ lines' = [lines EXCEPT ![inv][k] = InvoiceLine_save([@ EXCEPT !.unit_price = unit_price])]
  /\ line_edits' = line_edits + 1
  /\ Respond("InvoiceLineSave", "ok")
  /\ UNCHANGED <<room_status, seasons, reservations, invoices, next_pk, quote, audits,
               rooms, clients, aux>>

\* InvoiceLineAdmin delete: one line removed.
InvoiceLineDelete(inv, k) ==
  /\ inv \in InvoicePKs
  /\ k \in 1..Len(lines[inv])
  /\ line_edits < MaxLineEdits
  /\ lines' = [lines EXCEPT ![inv] = SubSeq(@, 1, k - 1) \o SubSeq(@, k + 1, Len(@))]
  /\ line_edits' = line_edits + 1
  /\ Respond("InvoiceLineDelete", "ok")
  /\ UNCHANGED <<room_status, seasons, reservations, invoices, next_pk, quote, audits,
               rooms, clients, aux>>

\* InvoiceUpdateView.post: form.save(), formset.save() with one edited line,
\* then invoice.refresh_from_db() and invoice.save().
InvoiceUpdate(inv, k, unit_price) ==
  /\ inv \in InvoicePKs
  /\ k \in 1..Len(lines[inv])
  /\ line_edits < MaxLineEdits
  /\ \E first \in {Invoice_save(DB, seasons, StoredInvoice(inv))} :
       \E edited \in {[first.db EXCEPT !.lines[inv][k] =
                         InvoiceLine_save([@ EXCEPT !.unit_price = unit_price])]} :
         \E last \in {Invoice_save(edited, seasons,
                                   CHOOSE i \in edited.invoices : i.pk = inv)} :
           Commit(last.db)
  /\ line_edits' = line_edits + 1
  /\ Respond("InvoiceUpdate", "ok")
  /\ UNCHANGED <<seasons, quote, audits, rooms, aux>>

\* invoice.build_default_lines(overwrite) called on a stored invoice.
BuildDefaultLines(inv, overwrite) ==
  /\ inv \in InvoicePKs
  /\ \E res \in {r \in reservations : r.pk = StoredInvoice(inv).reservation} :
       lines' = [lines EXCEPT ![inv] = build_default_lines(seasons, res, @, overwrite)]
  /\ Respond("BuildDefaultLines", "ok")
  /\ UNCHANGED <<room_status, seasons, reservations, invoices, next_pk, line_edits, quote,
               audits, rooms, clients, aux>>

\* Any other Invoice.save() of a stored invoice (InvoiceAdmin change form).
InvoiceSave(inv) ==
  /\ inv \in InvoicePKs
  /\ \E out \in {Invoice_save(DB, seasons, StoredInvoice(inv))} : Commit(out.db)
  /\ Respond("InvoiceSave", "ok")
  /\ UNCHANGED <<seasons, line_edits, quote, audits, rooms, aux>>

\* One call of room.get_price_for_date(d), as revenue views and invoices make it.
GetPriceForDate(room, d) ==
  /\ \E p \in price_outcomes(seasons, room, d) : quote' = [room |-> room, day |-> d, price |-> p]
  /\ Respond("GetPriceForDate", "ok")
  /\ UNCHANGED <<room_status, seasons, reservations, invoices, lines, next_pk, line_edits, audits,
               rooms, clients, aux>>

\* ------------------------------------------------------------ Rate seasons
\* What the admin form of a rate season can carry: (room, room_type) and
\* (start_date, end_date); the other fields are fixed.
SeasonTargets == {<<None, "">>, <<101, "">>, <<102, "">>, <<None, "double">>, <<101, "double">>}
SeasonRanges == {<<1, 3>>, <<2, 3>>, <<2, 2>>}

SeasonForm(pk, target, range) ==
  [pk |-> pk, room |-> target[1], room_type |-> target[2], start_date |-> range[1],
   end_date |-> range[2], price |-> 12000, apply_on |-> "all", active |-> TRUE]

\* clean that tests the dates only.
RateSeason_clean_dates_only(self) ==
  IF self.start_date >= self.end_date THEN "End date must be after start date."
  ELSE "ok"

\* RateSeason.clean: the message of the ValidationError raised, or "ok".
RateSeason_clean(self) ==
  IF self.room = None /\ self.room_type = "" THEN "Select a room or a room type."
  ELSE IF self.start_date >= self.end_date THEN "End date must be after start date."
  ELSE "ok"

SeasonPKs == {s.pk : s \in seasons}

\* RateSeasonAdmin add form: ModelForm validation runs full_clean, then save().
RateSeasonAdminAdd(target, range) ==
  /\ \E row \in {SeasonForm(IF seasons = {} THEN 1
                            ELSE 1 + (CHOOSE n \in SeasonPKs : \A m \in SeasonPKs : m <= n),
                            target, range)} :
       /\ row.pk <= MaxSeasons
       /\ seasons' = IF RateSeason_clean(row) = "ok" THEN seasons \cup {row} ELSE seasons
       /\ Respond("RateSeasonAdminAdd", RateSeason_clean(row))
  /\ UNCHANGED <<room_status, reservations, invoices, lines, next_pk, clients, line_edits, quote,
                 audits, rooms, aux>>

\* RateSeasonAdmin change form of a stored season.
RateSeasonAdminChange(pk, target, range) ==
  /\ pk \in SeasonPKs
  /\ \E row \in {SeasonForm(pk, target, range)} :
       /\ seasons' = IF RateSeason_clean(row) = "ok"
                     THEN {s \in seasons : s.pk # pk} \cup {row}
                     ELSE seasons
       /\ Respond("RateSeasonAdminChange", RateSeason_clean(row))
  /\ UNCHANGED <<room_status, reservations, invoices, lines, next_pk, clients, line_edits, quote,
                 audits, rooms, aux>>

\* RateSeasonAdmin delete.
RateSeasonAdminDelete(pk) ==
  /\ pk \in SeasonPKs
  /\ seasons' = {s \in seasons : s.pk # pk}
  /\ Respond("RateSeasonAdminDelete", "ok")
  /\ UNCHANGED <<room_status, reservations, invoices, lines, next_pk, clients, line_edits, quote,
                 audits, rooms, aux>>

\* --------------------------------------------------- Clients and deletions
ClientPKs == {c.pk : c \in clients}

\* The admin change form of a reservation with another client chosen, then save().
AdminChangeClient(pk, client) ==
  /\ pk \in PKs
  /\ client \in ClientPKs
  /\ \E out \in {Reservation_save(DB, seasons, [Stored(pk) EXCEPT !.client = client])} :
       /\ Commit(out.db)
       /\ Respond("AdminChangeClient", out.error)
  /\ UNCHANGED <<seasons, line_edits, quote, audits, rooms, aux>>

\* The admin change form of an invoice with locked ticked, then Invoice.save().
InvoiceAdminLock(inv) ==
  /\ inv \in InvoicePKs
  /\ \E out \in {Invoice_save(DB, seasons, [StoredInvoice(inv) EXCEPT !.locked = TRUE])} :
       Commit(out.db)
  /\ Respond("InvoiceAdminLock", "ok")
  /\ UNCHANGED <<seasons, line_edits, quote, audits, rooms, aux>>

\* The loop of _client_sync_invoices over the invoices fetched when it starts:
\* each gets the client's billing values and is saved.
RECURSIVE sync_invoices(_, _, _, _)
sync_invoices(db, ss, todo, client) ==
  IF todo = {} THEN db
  ELSE LET inv == CHOOSE x \in todo : \A y \in todo : y.pk <= x.pk
       IN  Only({ IF ~step.ok THEN step.db
                  ELSE sync_invoices(step.db, ss, todo \ {inv}, client)
                  : step \in {Invoice_save(db, ss, fill_billing_from_client(inv, client))} })

\* The sync that does not look at the lock.
client_sync_invoices_ignoring_lock(db, ss, instance) ==
  sync_invoices(db, ss, {i \in db.invoices : i.client = instance.pk}, instance)

\* _client_sync_invoices (post_save of Client)
client_sync_invoices(db, ss, instance) ==
  sync_invoices(db, ss, {i \in db.invoices : i.client = instance.pk /\ ~i.locked}, instance)

\* ClientUpdateView: the client is saved with new values, then the post_save hook runs.
ClientSave(pk, values) ==
  /\ pk \in ClientPKs
  /\ \E instance \in {[pk |-> pk, name |-> values.name, tax_id |-> values.tax_id,
                       address |-> values.address]} :
       \E done \in {client_sync_invoices(
                      [DB EXCEPT !.clients = {c \in clients : c.pk # pk} \cup {instance}],
                      seasons, instance)} :
         Commit(done)
  /\ Respond("ClientSave", "ok")
  /\ UNCHANGED <<seasons, line_edits, quote, audits, rooms, aux>>

\* The deletion a Collector makes of a set of reservations reached by CASCADE:
\* their invoices and lines go with them, then post_delete runs for each.
RECURSIVE post_delete_each(_, _)
post_delete_each(db, gone) ==
  IF gone = {} THEN db
  ELSE LET r == CHOOSE x \in gone : TRUE
       IN  post_delete_each([db EXCEPT !.room_status = reservation_post_delete(db, r)], gone \ {r})

cascade_delete_reservations(db, gone) ==
  LET gone_invoices == {i \in db.invoices : \E r \in gone : i.reservation = r.pk}
  IN  post_delete_each(
        [db EXCEPT !.reservations = db.reservations \ gone,
                   !.invoices = db.invoices \ gone_invoices,
                   !.lines = [p \in DOMAIN db.lines \ {i.pk : i \in gone_invoices} |-> db.lines[p]]],
        gone)

\* ClientDeleteView.delete: Invoice.client is PROTECT, Reservation.client is CASCADE.
ClientDelete(pk) ==
  /\ pk \in ClientPKs
  /\ IF \E i \in invoices : i.client = pk
     THEN Rollback /\ Respond("ClientDelete", "ProtectedError")
     ELSE /\ \E done \in {cascade_delete_reservations(
                            [DB EXCEPT !.clients = {c \in clients : c.pk # pk}],
                            {r \in reservations : r.client = pk})} :
               Commit(done)
          /\ Respond("ClientDelete", "ok")
  /\ UNCHANGED <<seasons, line_edits, quote, audits, rooms, aux>>

\* RoomDeleteView.delete: Reservation.room is PROTECT, RateSeason.room is CASCADE.
RoomDelete(room) ==
  /\ room \in rooms
  /\ IF \E r \in reservations : r.room = room
     THEN UNCHANGED <<rooms, seasons>> /\ Respond("RoomDelete", "ProtectedError")
     ELSE /\ rooms' = rooms \ {room}
          /\ seasons' = {s \in seasons : s.room # room}
          /\ Respond("RoomDelete", "ok")
  /\ UNCHANGED <<room_status, reservations, invoices, lines, next_pk, clients, line_edits, quote,
                 audits, aux>>

\* ------------------------------------------------------------- Night Audit
\* The queries of NightAuditCloseView.post.
active_qs(rs, d) == {r \in rs : r.status \in {BOOKED, CHECKED_IN} /\ r.check_in <= d /\ r.check_out > d}
arrivals_qs(rs, d) == {r \in rs : r.check_in = d /\ r.status # CANCELED}
departures_qs(rs, d) == {r \in rs : r.check_out = d /\ r.status # CANCELED}
stayover_qs(rs, d) == {r \in rs : r.check_in < d /\ r.check_out > d /\ r.status \in {BOOKED, CHECKED_IN}}
\* The no-show query widened to every booked reservation that has started.
no_shows_started(rs, d) == {r \in rs : r.check_in <= d /\ r.status = BOOKED}
no_shows_qs(rs, d) == {r \in rs : r.check_in = d /\ r.status = BOOKED}

\* sum(r.room.get_price_for_date(audit_date) for r in active_qs)
RECURSIVE revenue_of(_, _, _)
revenue_of(ss, rs, d) ==
  IF rs = {} THEN 0
  ELSE LET r == CHOOSE x \in rs : TRUE
       IN  get_price_for_date(ss, r.room, d) + revenue_of(ss, rs \ {r}, d)

\* The loop over the no-shows fetched when the loop starts (newest first):
\* each is canceled by the Presenter; an exception leaves the loop.
RECURSIVE cancel_no_shows(_, _, _)
cancel_no_shows(db, ss, todo) ==
  IF todo = {} THEN [ok |-> TRUE, error |-> "ok", db |-> db]
  ELSE LET r == CHOOSE x \in todo : \A y \in todo : y.pk <= x.pk
       IN  Only({ IF ~step.ok THEN step ELSE cancel_no_shows(step.db, ss, todo \ {r})
                  : step \in {presenter_cancel(db, ss, r)} })

\* The close that runs without the already-closed test and cancels the
\* no-shows before its transaction starts.
night_audit_close_unguarded(db, ss, rows, d) ==
  Only({
    IF ~canceled.ok THEN [result |-> canceled.error, db |-> db, audits |-> rows]
    ELSE IF \E a \in rows : a.date = d
    THEN [result |-> "IntegrityError", db |-> canceled.db, audits |-> rows]
    ELSE [result |-> "ok", db |-> canceled.db,
          audits |-> rows \cup {[date |-> d,
                                 occupied_rooms |-> Cardinality({r.room : r \in active_qs(db.reservations, d)}),
                                 revenue |-> revenue_of(ss, active_qs(db.reservations, d), d),
                                 arrivals |-> Cardinality(arrivals_qs(canceled.db.reservations, d)),
                                 departures |-> Cardinality(departures_qs(canceled.db.reservations, d)),
                                 stayovers |-> Cardinality(stayover_qs(canceled.db.reservations, d)),
                                 no_shows |-> Cardinality(no_shows_qs(db.reservations, d))]}]
    : canceled \in {cancel_no_shows(db, ss, no_shows_qs(db.reservations, d))} })

\* NightAuditCloseView.post for a well-formed date. occupied_rooms and revenue
\* are computed before the transaction; the arrivals, departures and stayovers
\* querysets are lazy and are counted after the cancellations. An exception
\* inside the atomic block rolls the cancellations back. (Of the totals, the
\* figures derived from these and the cancellations-by-timestamp count are
\* left out.)
night_audit_close(db, ss, rows, d) ==
  IF \E a \in rows : a.date = d
  THEN [result |-> "already_closed", db |-> db, audits |-> rows]
  ELSE Only({
         IF ~canceled.ok THEN [result |-> canceled.error, db |-> db, audits |-> rows]
         ELSE IF \E a \in rows : a.date = d
         THEN [result |-> "IntegrityError", db |-> db, audits |-> rows]
         ELSE [result |-> "ok", db |-> canceled.db,
               audits |-> rows \cup {[date |-> d,
                                      occupied_rooms |-> Cardinality({r.room : r \in active_qs(db.reservations, d)}),
                                      revenue |-> revenue_of(ss, active_qs(db.reservations, d), d),
                                      arrivals |-> Cardinality(arrivals_qs(canceled.db.reservations, d)),
                                      departures |-> Cardinality(departures_qs(canceled.db.reservations, d)),
                                      stayovers |-> Cardinality(stayover_qs(canceled.db.reservations, d)),
                                      no_shows |-> Cardinality(no_shows_qs(db.reservations, d))]}]
         : canceled \in {cancel_no_shows(db, ss, no_shows_qs(db.reservations, d))} })

\* An atomic block whose failed NightAudit insert keeps the cancellations.
close_transaction_keeps_cancellations(db, ss, rows, d) ==
  Only({
    IF ~canceled.ok THEN [result |-> canceled.error, db |-> db, audits |-> rows]
    ELSE IF \E a \in rows : a.date = d
    THEN [result |-> "IntegrityError", db |-> canceled.db, audits |-> rows]
    ELSE [result |-> "ok", db |-> canceled.db,
          audits |-> rows \cup {[date |-> d,
                                 occupied_rooms |-> Cardinality({r.room : r \in active_qs(db.reservations, d)}),
                                 revenue |-> revenue_of(ss, active_qs(db.reservations, d), d),
                                 arrivals |-> Cardinality(arrivals_qs(canceled.db.reservations, d)),
                                 departures |-> Cardinality(departures_qs(canceled.db.reservations, d)),
                                 stayovers |-> Cardinality(stayover_qs(canceled.db.reservations, d)),
                                 no_shows |-> Cardinality(no_shows_qs(db.reservations, d))]}]
    : canceled \in {cancel_no_shows(db, ss, no_shows_qs(db.reservations, d))} })

\* NightAuditCloseView.post after its already-closed test: the metrics and
\* the atomic block. The unique index on NightAudit.date rejects a second row
\* of the date; the IntegrityError rolls the block back.
close_transaction(db, ss, rows, d) ==
  Only({
    IF ~canceled.ok THEN [result |-> canceled.error, db |-> db, audits |-> rows]
    ELSE IF \E a \in rows : a.date = d
    THEN [result |-> "IntegrityError", db |-> db, audits |-> rows]
    ELSE [result |-> "ok", db |-> canceled.db,
          audits |-> rows \cup {[date |-> d,
                                 occupied_rooms |-> Cardinality({r.room : r \in active_qs(db.reservations, d)}),
                                 revenue |-> revenue_of(ss, active_qs(db.reservations, d), d),
                                 arrivals |-> Cardinality(arrivals_qs(canceled.db.reservations, d)),
                                 departures |-> Cardinality(departures_qs(canceled.db.reservations, d)),
                                 stayovers |-> Cardinality(stayover_qs(canceled.db.reservations, d)),
                                 no_shows |-> Cardinality(no_shows_qs(db.reservations, d))]}]
    : canceled \in {cancel_no_shows(db, ss, no_shows_qs(db.reservations, d))} })

NightAuditClose(d) ==
  /\ \E out \in {night_audit_close(DB, seasons, audits, d)} :
       /\ Commit(out.db)
       /\ audits' = out.audits
       /\ Respond("NightAuditClose", out.result)
  /\ UNCHANGED <<seasons, line_edits, quote, rooms, aux>>

Intervals == Dates \X Dates
NoBreakfast == <<FALSE, 0>>

\* Reservation lifecycle: creation, edits, the Presenter workflow, deletion.
Next ==
  \/ \E room \in Rooms, iv \in Intervals, st \in ReservationStatus :
       ReservationCreate(room, iv[1], iv[2], NoBreakfast, st)
  \/ \E room \in Rooms, iv \in Intervals : PresenterCreate(room, iv[1], iv[2], NoBreakfast)
  \/ \E pk \in PKs, st \in ReservationStatus : DirectStatusEdit(pk, st)
  \/ \E pk \in PKs, iv \in Intervals : AdminEdit(pk, Stored(pk).room, iv[1], iv[2])
  \/ \E pk \in PKs : CheckIn(pk)
  \/ \E pk \in PKs : CheckOut(pk)
  \/ \E pk \in PKs : Cancel(pk)
  \/ \E room \in Rooms : MarkRoomCleaned(room)
  \/ \E pk \in PKs : ReservationDelete(pk)

Spec == Init /\ [][Next]_vars

\* Billing: reservations with their invoices, and edits of invoices and lines.
InitBilling ==
  /\ room_status = [r \in Rooms |-> AVAILABLE]
  /\ seasons \in SeasonTables
  /\ reservations = {}
  /\ invoices = {}
  /\ lines = <<>>
  /\ next_pk = [reservation |-> 1, invoice |-> 1]
  /\ line_edits = 0
  /\ quote = NoQuote
  /\ audits = {}
  /\ rooms = Rooms
  /\ clients = InitialClients
  /\ procs = NoProcs
  /\ issued = {}
  /\ listing = NoListing
  /\ response = [op |-> "none", result |-> "ok"]

NextBilling ==
  \/ \E room \in Rooms, iv \in Intervals, bf \in BreakfastChoices :
       ReservationCreate(room, iv[1], iv[2], bf, BOOKED)
  \/ \E pk \in PKs : ReservationDelete(pk)
  \/ \E inv \in InvoicePKs, k \in 1..(2 * MaxDate), p \in LinePrices : InvoiceLineSave(inv, k, p)
  \/ \E inv \in InvoicePKs, k \in 1..(2 * MaxDate) : InvoiceLineDelete(inv, k)
  \/ \E inv \in InvoicePKs, k \in 1..(2 * MaxDate), p \in LinePrices : InvoiceUpdate(inv, k, p)
  \/ \E inv \in InvoicePKs : InvoiceSave(inv)

SpecBilling == InitBilling /\ [][NextBilling]_vars

\* Creation only: invoices are created one at a time and never removed.
NextCreate ==
  \/ \E room \in Rooms, iv \in Intervals, bf \in BreakfastChoices, st \in ReservationStatus :
       ReservationCreate(room, iv[1], iv[2], bf, st)
  \/ \E room \in Rooms, iv \in Intervals, bf \in BreakfastChoices :
       PresenterCreate(room, iv[1], iv[2], bf)

SpecCreate == InitBilling /\ [][NextCreate]_vars

\* Rate Resolver: any table of season rows, and calls of get_price_for_date.
InitRates ==
  /\ room_status = [r \in Rooms |-> AVAILABLE]
  /\ seasons \in SUBSET SeasonRows
  /\ reservations = {}
  /\ invoices = {}
  /\ lines = <<>>
  /\ next_pk = [reservation |-> 1, invoice |-> 1]
  /\ line_edits = 0
  /\ quote = NoQuote
  /\ audits = {}
  /\ rooms = Rooms
  /\ clients = InitialClients
  /\ procs = NoProcs
  /\ issued = {}
  /\ listing = NoListing
  /\ response = [op |-> "none", result |-> "ok"]

NextRates == \E room \in Rooms, d \in Dates : GetPriceForDate(room, d)

SpecRates == InitRates /\ [][NextRates]_vars

\* Night audit: reservations in any status, Presenter operations, closes.
NextAudit ==
  \/ \E room \in Rooms, iv \in Intervals, st \in ReservationStatus :
       ReservationCreate(room, iv[1], iv[2], NoBreakfast, st)
  \/ \E pk \in PKs : CheckIn(pk)
  \/ \E d \in Dates : NightAuditClose(d)

SpecAudit == Init /\ [][NextAudit]_vars

\* Reservation edits through ReservationUpdateView.
NextUpdate ==
  \/ \E room \in Rooms, iv \in Intervals, st \in ReservationStatus :
       ReservationCreate(room, iv[1], iv[2], NoBreakfast, st)
  \/ \E pk \in PKs, room \in Rooms, iv \in Intervals :
       ReservationUpdate(pk, room, iv[1], iv[2], NoBreakfast)

SpecUpdate == Init /\ [][NextUpdate]_vars

\* Clients, billing snapshots and deletions of rooms and clients.
InitClients ==
  /\ room_status = [r \in Rooms |-> AVAILABLE]
  /\ seasons = {RoomSeason}
  /\ reservations = {}
  /\ invoices = {}
  /\ lines = <<>>
  /\ next_pk = [reservation |-> 1, invoice |-> 1]
  /\ line_edits = 0
  /\ quote = NoQuote
  /\ audits = {}
  /\ rooms = Rooms
  /\ clients = InitialClients
  /\ procs = NoProcs
  /\ issued = {}
  /\ listing = NoListing
  /\ response = [op |-> "none", result |-> "ok"]

NextClients ==
  \/ \E c \in ClientPKs, room \in rooms, iv \in Intervals :
       ReservationCreateOf(c, room, iv[1], iv[2], NoBreakfast, BOOKED)
  \/ \E pk \in PKs, c \in ClientPKs : AdminChangeClient(pk, c)
  \/ \E inv \in InvoicePKs : InvoiceAdminLock(inv)
  \/ \E c \in ClientPKs, values \in BillingChoices : ClientSave(c, values)
  \/ \E c \in ClientPKs : ClientDelete(c)
  \/ \E room \in rooms : RoomDelete(room)

SpecClients == InitClients /\ [][NextClients]_vars

\* Rate seasons entered, changed and deleted in the admin.
NextSeasons ==
  \/ \E target \in SeasonTargets, range \in SeasonRanges : RateSeasonAdminAdd(target, range)
  \/ \E pk \in SeasonPKs, target \in SeasonTargets, range \in SeasonRanges :
       RateSeasonAdminChange(pk, target, range)
  \/ \E pk \in SeasonPKs : RateSeasonAdminDelete(pk)

SpecSeasons == Init /\ [][NextSeasons]_vars

\* The Presenter workflow on booked reservations, and reservation deletion.
NextPresenter ==
  \/ \E room \in Rooms, iv \in Intervals : ReservationCreate(room, iv[1], iv[2], NoBreakfast, BOOKED)
  \/ \E room \in Rooms, iv \in Intervals : PresenterCreate(room, iv[1], iv[2], NoBreakfast)
  \/ \E pk \in PKs : CheckIn(pk)
  \/ \E pk \in PKs : CheckOut(pk)
  \/ \E pk \in PKs : Cancel(pk)
  \/ \E room \in Rooms : MarkRoomCleaned(room)
  \/ \E pk \in PKs : ReservationDelete(pk)

SpecPresenter == Init /\ [][NextPresenter]_vars

\* ------------------------------------------------- edits of a stored stay
\* ReservationAdmin.add_breakfast on one selected reservation:
\* queryset.update, which calls neither save() nor the signals.
AddBreakfast(pk) ==
  /\ pk \in PKs
  /\ reservations' = (reservations \ {Stored(pk)})
                       \cup {[Stored(pk) EXCEPT !.breakfast_included = TRUE]}
  /\ Respond("AddBreakfast", "ok")
  /\ UNCHANGED <<room_status, seasons, invoices, lines, next_pk, line_edits, quote, audits,
               rooms, clients, aux>>

\* ReservationAdmin.remove_breakfast on one selected reservation.
RemoveBreakfast(pk) ==
  /\ pk \in PKs
  /\ reservations' = (reservations \ {Stored(pk)})
                       \cup {[Stored(pk) EXCEPT !.breakfast_included = FALSE,
                                                !.breakfast_price = 0]}
  /\ Respond("RemoveBreakfast", "ok")
  /\ UNCHANGED <<room_status, seasons, invoices, lines, next_pk, line_edits, quote, audits,
               rooms, clients, aux>>

\* Stays that are booked with their invoice and then edited: dates and
\* breakfast through ReservationUpdateView, breakfast through the admin actions.
NextStayEdits ==
  \/ \E room \in Rooms, iv \in Intervals, bf \in BreakfastChoices :
       ReservationCreate(room, iv[1], iv[2], bf, BOOKED)
  \/ \E pk \in PKs, iv \in Intervals, bf \in BreakfastChoices :
       ReservationUpdate(pk, Stored(pk).room, iv[1], iv[2], bf)
  \/ \E pk \in PKs : AddBreakfast(pk)
  \/ \E pk \in PKs : RemoveBreakfast(pk)

SpecStayEdits == Init /\ [][NextStayEdits]_vars

\* ------------------------------------------------------- invoice numbering
\* Reservation.objects.create as in ReservationCreate; issued records every
\* (series, number) a stored invoice has carried, with the invoice's pk.
ReservationCreateIssuing(room, ci, co, bf) ==
  /\ next_pk.reservation <= MaxRes
  /\ \E out \in {Reservation_save(DB, seasons, Candidate(room, ci, co, bf, BOOKED))} :
       /\ Commit(out.db)
       /\ issued' = issued \cup {[series |-> i.series, number |-> i.number, invoice |-> i.pk]
                                 : i \in out.db.invoices}
       /\ Respond("ReservationCreate", out.error)
  /\ UNCHANGED <<seasons, line_edits, quote, audits, rooms, procs, listing>>

NextNumbers ==
  \/ \E room \in Rooms, iv \in Intervals, bf \in BreakfastChoices :
       ReservationCreateIssuing(room, iv[1], iv[2], bf)
  \/ \E pk \in PKs : ReservationDelete(pk)

SpecNumbers == Init /\ [][NextNumbers]_vars

\* ------------------------------------------------------ availability query
\* Room types a query can name; "" is a query without the type parameter.
TypeFilters == {"", "double", "single"}

\* An availability query that treats the range as closed at its end.
available_rooms_closed_range(rs, rms, start, end, room_type) ==
  LET overlapping_ids == {o.room : o \in {r \in rs : /\ r.status \in {BOOKED, CHECKED_IN}
                                                 /\ r.check_in <= end
                                                 /\ r.check_out > start}}
  IN  {r \in rms \ overlapping_ids : room_type = "" \/ RoomType[r] = room_type}

\* AvailabilityAPI.get: the rooms of rooms_qs.
available_rooms(rs, rms, start, end, room_type) ==
  LET overlapping_ids == {o.room : o \in {r \in rs : /\ r.status \in {BOOKED, CHECKED_IN}
                                                 /\ r.check_in < end
                                                 /\ r.check_out > start}}
  IN  {r \in rms \ overlapping_ids : room_type = "" \/ RoomType[r] = room_type}

\* The total of the nightly prices from start on, n nights.
RECURSIVE stay_total(_, _, _, _)
stay_total(ss, room, start, n) ==
  IF n <= 0 THEN 0
  ELSE get_price_for_date(ss, room, start) + stay_total(ss, room, start + 1, n - 1)

\* AvailabilityAPI.get for well-formed dates: 400 unless start < end, else the
\* free rooms with the total price of the stay. (The average price and the
\* echoed room fields are left out.)
AvailabilityQuery(start, end, room_type) ==
  /\ IF ~(start < end)
     THEN /\ listing' = [start |-> start, end |-> end, type |-> room_type, rooms |-> {}]
          /\ Respond("AvailabilityQuery", "bad_request")
     ELSE /\ listing' = [start |-> start, end |-> end, type |-> room_type,
                         rooms |-> {[id |-> r, total_price |-> stay_total(seasons, r, start, end - start)]
                                    : r \in available_rooms(reservations, rooms, start, end, room_type)}]
          /\ Respond("AvailabilityQuery", "ok")
  /\ UNCHANGED <<room_status, seasons, reservations, invoices, lines, next_pk, line_edits,
               quote, audits, rooms, clients, procs, issued>>

NextAvailability ==
  \/ \E room \in Rooms, iv \in Intervals, st \in ReservationStatus :
       ReservationCreate(room, iv[1], iv[2], NoBreakfast, st)
  \/ \E pk \in PKs : Cancel(pk)
  \/ \E iv \in Intervals, t \in TypeFilters : AvailabilityQuery(iv[1], iv[2], t)

SpecAvailability == Init /\ [][NextAvailability]_vars

\* --------------------------------------------- concurrent request handlers
\* Request handlers that run Reservation.objects.create(...) at the same time.
\* No statement of the handler takes a lock and nothing opens a transaction,
\* so every query is a step of its own against the committed store:
\*   clean   Reservation.full_clean (the overlap query)
\*   insert  super().save(): the INSERT of the reservation row
\*   number  post_save -> Invoice.save -> assign_sequential_number (Max query)
\*   invoice the INSERT of the invoice row, its lines and total, the room sync
Handlers == 1..MaxHandlers

HandlerBegin(h, room, ci, co) ==
  /\ h \notin DOMAIN procs
  /\ procs' = [g \in DOMAIN procs \cup {h} |->
                 IF g = h
                 THEN [pc |-> "clean", number |-> None,
                       instance |-> Candidate(room, ci, co, NoBreakfast, BOOKED)]
                 ELSE procs[g]]
  /\ Respond("HandlerBegin", "ok")
  /\ UNCHANGED <<room_status, seasons, reservations, invoices, lines, next_pk, line_edits,
               quote, audits, rooms, clients, issued, listing>>

\* Reservation.save, first half: full_clean against the committed rows.
HandlerClean(h) ==
  /\ h \in DOMAIN procs
  /\ procs[h].pc = "clean"
  /\ IF Reservation_clean(reservations, procs[h].instance)
     THEN procs' = [procs EXCEPT ![h].pc = "insert"] /\ Respond("HandlerClean", "ok")
     ELSE procs' = [procs EXCEPT ![h].pc = "rejected"]
          /\ Respond("HandlerClean", "ValidationError")
  /\ UNCHANGED <<room_status, seasons, reservations, invoices, lines, next_pk, line_edits,
               quote, audits, rooms, clients, issued, listing>>

\* Reservation.save, second half: the INSERT, committed at once (autocommit).
HandlerInsert(h) ==
  /\ h \in DOMAIN procs
  /\ procs[h].pc = "insert"
  /\ IF ~check_in_before_check_out(procs[h].instance)
     THEN /\ procs' = [procs EXCEPT ![h].pc = "failed"]
          /\ UNCHANGED <<reservations, next_pk>>
          /\ Respond("HandlerInsert", "IntegrityError")
     ELSE \E row \in {[procs[h].instance EXCEPT !.pk = next_pk.reservation]} :
            /\ reservations' = reservations \cup {row}
            /\ next_pk' = [next_pk EXCEPT !.reservation = @ + 1]
            /\ procs' = [procs EXCEPT ![h].instance = row,
                                      ![h].pc = IF hook_creates_invoice(DB, row, TRUE)
                                                THEN "number" ELSE "done"]
            /\ Respond("HandlerInsert", "ok")
  /\ UNCHANGED <<room_status, seasons, invoices, lines, line_edits,
               quote, audits, rooms, clients, issued, listing>>

\* Invoice.save, first half: the number is read from the committed invoices.
HandlerNumber(h) ==
  /\ h \in DOMAIN procs
  /\ procs[h].pc = "number"
  /\ procs' = [procs EXCEPT
                 ![h].number = assign_sequential_number(invoices,
                                 [series |-> DefaultSeries, number |-> None]),
                 ![h].pc = "invoice"]
  /\ Respond("HandlerNumber", "ok")
  /\ UNCHANGED <<room_status, seasons, reservations, invoices, lines, next_pk, line_edits,
               quote, audits, rooms, clients, issued, listing>>

\* Invoice.save, second half, and the rest of _reservation_post_save: the
\* INSERT of the invoice with the number read before. On IntegrityError the
\* exception leaves the handler; the reservation row is already committed.
HandlerInvoice(h) ==
  /\ h \in DOMAIN procs
  /\ procs[h].pc = "invoice"
  /\ \E res \in {procs[h].instance} :
       \E out \in {Invoice_save(DB, seasons,
                     fill_billing_from_client(
                       [pk |-> None, reservation |-> res.pk, client |-> res.client,
                        series |-> DefaultSeries, number |-> procs[h].number, total |-> 0,
                        locked |-> FALSE, billing_name |-> "", billing_tax_id |-> "",
                        billing_address |-> ""],
                       CHOOSE c \in clients : c.pk = res.client))} :
         IF ~out.ok
         THEN /\ Rollback
              /\ procs' = [procs EXCEPT ![h].pc = "failed"]
              /\ Respond("HandlerInvoice", "IntegrityError")
         ELSE /\ Commit([out.db EXCEPT !.room_status = sync_room_status(out.db, res, "None")])
              /\ procs' = [procs EXCEPT ![h].pc = "done"]
              /\ Respond("HandlerInvoice", "ok")
  /\ UNCHANGED <<seasons, line_edits, quote, audits, rooms, issued, listing>>

\* Close requests that run at the same time. The already-closed test is a
\* query outside the transaction; the atomic block commits as a whole or not
\* at all, so it is one step against the committed store.
CloseCheck(h, d) ==
  /\ h \notin DOMAIN procs
  /\ \E closed \in {\E a \in audits : a.date = d} :
       /\ procs' = [g \in DOMAIN procs \cup {h} |->
                      IF g = h
                      THEN [pc |-> IF closed THEN "done" ELSE "transaction", date |-> d]
                      ELSE procs[g]]
       /\ Respond("CloseCheck", IF closed THEN "already_closed" ELSE "ok")
  /\ UNCHANGED <<room_status, seasons, reservations, invoices, lines, next_pk, line_edits,
               quote, audits, rooms, clients, issued, listing>>

CloseTransaction(h) ==
  /\ h \in DOMAIN procs
  /\ procs[h].pc = "transaction"
  /\ \E out \in {close_transaction(DB, seasons, audits, procs[h].date)} :
       /\ Commit(out.db)
       /\ audits' = out.audits
       /\ Respond("CloseTransaction", out.result)
  /\ procs' = [procs EXCEPT ![h].pc = "done"]
  /\ UNCHANGED <<seasons, line_edits, quote, rooms, issued, listing>>

NextCloses ==
  \/ \E room \in Rooms, iv \in Intervals :
       ReservationCreate(room, iv[1], iv[2], NoBreakfast, BOOKED)
  \/ \E h \in Handlers, d \in Dates : CloseCheck(h, d)
  \/ \E h \in Handlers : CloseTransaction(h)

SpecCloses == Init /\ [][NextCloses]_vars

NextHandlers ==
  \/ \E h \in Handlers, room \in Rooms, iv \in Intervals : HandlerBegin(h, room, iv[1], iv[2])
  \/ \E h \in Handlers : HandlerClean(h)
  \/ \E h \in Handlers : HandlerInsert(h)
  \/ \E h \in Handlers : HandlerNumber(h)
  \/ \E h \in Handlers : HandlerInvoice(h)

SpecHandlers == Init /\ [][NextHandlers]_vars

\* Line generation: invoices created with their reservations, lines edited
\* or removed by hand, and generation run again.
NextLines ==
  \/ \E room \in Rooms, iv \in Intervals, bf \in BreakfastChoices :
       ReservationCreate(room, iv[1], iv[2], bf, BOOKED)
  \/ \E inv \in InvoicePKs, k \in 1..(2 * MaxDate), p \in LinePrices : InvoiceLineSave(inv, k, p)
  \/ \E inv \in InvoicePKs, k \in 1..(2 * MaxDate) : InvoiceLineDelete(inv, k)
  \/ \E inv \in InvoicePKs, overwrite \in BOOLEAN : BuildDefaultLines(inv, overwrite)

SpecLines == InitBilling /\ [][NextLines]_vars

TypeOK ==
  /\ room_status \in [Rooms -> RoomStatus]
  /\ \A r \in reservations : r.status \in ReservationStatus /\ r.room \in Rooms
  /\ response.result \in {"ok", "refused", "form_invalid", "ValidationError", "IntegrityError",
                          "already_closed", "bad_request"}
  /\ DOMAIN procs \subseteq Handlers

\* ------------------------------------------------------------------- claims
Active(r) == r.status \in {BOOKED, CHECKED_IN}
InvoicesOf(invs, pk) == {i \in invs : i.reservation = pk}

\* C1: for a room with base price p and no rate seasons, the invoice created
\* with a reservation of n nights without breakfast has exactly n accommodation
\* lines and a stored total of n * p.
C1_InvoiceTotalIsNightsTimesPrice ==
  [][\A r \in reservations' :
       (r.pk \notin PKs /\ seasons = {} /\ ~r.breakfast_included) =>
         \E i \in invoices' :
           /\ i.reservation = r.pk
           /\ Len(lines'[i.pk]) = nights(r)
           /\ \A k \in 1..Len(lines'[i.pk]) : lines'[i.pk][k].kind = "Accommodation"
           /\ i.total = nights(r) * RoomPrice[r.room]]_vars

\* C2: no two reservations of the same room that are both booked or checked_in
\* have overlapping half-open intervals [check_in, check_out).
C2_NoDoubleBooking ==
  \A a, b \in reservations :
    (a.pk # b.pk /\ a.room = b.room /\ Active(a) /\ Active(b)) =>
      ~(a.check_in < b.check_out /\ b.check_in < a.check_out)

C2_Witness ==
  \E a, b \in reservations :
    /\ a.pk # b.pk /\ a.room = b.room /\ Active(a) /\ Active(b)
    /\ a.check_out = b.check_in
    /\ response.result = "ValidationError"

\* C3: after every save of an invoice and after every save or deletion of one
\* of its lines, the stored invoice total equals the sum of its lines' totals.
C3_TotalEqualsLineSum ==
  \A i \in invoices : i.total = SumTotals(lines[i.pk])

\* C4: under the Presenter operations check_in, check_out and cancel a status
\* changes only along booked->checked_in, checked_in->checked_out,
\* booked->canceled or checked_in->canceled; checked_out and canceled are final.
AllowedTransitions ==
  {<<BOOKED, CHECKED_IN>>, <<CHECKED_IN, CHECKED_OUT>>,
   <<BOOKED, CANCELED>>, <<CHECKED_IN, CANCELED>>}

C4_PresenterTransitions ==
  [][(\E pk \in PKs : CheckIn(pk) \/ CheckOut(pk) \/ Cancel(pk)) =>
       \A o \in reservations : \A n \in reservations' :
         (n.pk = o.pk /\ n.status # o.status) => <<o.status, n.status>> \in AllowedTransitions]_vars

\* C5: right after a save that changes a reservation's status to checked_in
\* its room is occupied, and right after a change to checked_out its room is
\* cleaning, whichever code path made the save.
C5_RoomFollowsStatusChange ==
  [][\A n \in reservations' :
       (n.pk \notin PKs \/ (n.pk \in PKs /\ Stored(n.pk).status # n.status)) =>
         /\ n.status = CHECKED_IN => room_status'[n.room] = OCCUPIED
         /\ n.status = CHECKED_OUT => room_status'[n.room] = CLEANING]_vars

C5_Witness ==
  /\ \E r \in reservations : r.status = CHECKED_OUT /\ room_status[r.room] = CLEANING
  /\ \E r \in reservations : r.status = CHECKED_IN /\ room_status[r.room] = OCCUPIED

\* C6: after Presenter cancel of a non-canceled reservation the room is
\* available if no other reservation of the room is checked_in, and keeps the
\* status it had if another reservation of the room is checked_in.
C6_CancelRoomStatus ==
  [][\A pk \in PKs :
       (Cancel(pk) /\ ~cancel_refused(Stored(pk)) /\ response'.result = "ok") =>
         LET room == Stored(pk).room
             other_checked_in == \E o \in reservations :
                                   o.pk # pk /\ o.room = room /\ o.status = CHECKED_IN
         IN  room_status'[room] = IF other_checked_in THEN room_status[room] ELSE AVAILABLE]_vars

\* C7: Presenter create on a valid candidate commits one booked reservation
\* together with exactly one invoice; if a step fails nothing is persisted.
C7_CreateCommitsReservationAndInvoice ==
  [][\A room \in Rooms, iv \in Intervals :
       PresenterCreate(room, iv[1], iv[2], NoBreakfast) =>
         /\ (iv[1] < iv[2]
             /\ overlapping(reservations, Candidate(room, iv[1], iv[2], NoBreakfast, BOOKED)) = {}) =>
               \E n \in reservations' :
                 /\ n.pk \notin PKs
                 /\ n.status = BOOKED /\ n.room = room
                 /\ n.check_in = iv[1] /\ n.check_out = iv[2]
                 /\ reservations' = reservations \cup {n}
                 /\ Cardinality(InvoicesOf(invoices', n.pk)) = 1
         /\ response'.result # "ok" => UNCHANGED <<reservations, invoices, lines, room_status>>]_vars

C9_RefusedOperationsChangeNothing ==
  [][\A pk \in PKs :
       (\/ CheckIn(pk) /\ Stored(pk).status \in {CANCELED, CHECKED_OUT}
        \/ CheckOut(pk) /\ Stored(pk).status # CHECKED_IN
        \/ Cancel(pk) /\ Stored(pk).status = CANCELED) =>
         UNCHANGED <<reservations, room_status, invoices, lines>>]_vars

C9_Witness ==
  /\ response.result = "refused"
  /\ \E r \in reservations : r.status = CHECKED_OUT
  /\ \E r \in reservations : r.status = CANCELED

\* C10: a new invoice without a number gets the series' largest number plus
\* one, the numbers of a series are pairwise distinct and, from an empty
\* series, they are exactly 1..n after n creations.
SeriesNumbers(invs, series) == {i.number : i \in {j \in invs : j.series = series}}
MaxOf(S) == IF S = {} THEN 0 ELSE CHOOSE n \in S : \A m \in S : m <= n

C10_SequentialNumbers ==
  [][\A i \in invoices' :
       i \notin invoices =>
         /\ i.number = MaxOf(SeriesNumbers(invoices, i.series)) + 1
         /\ \A a, b \in invoices' : (a.pk # b.pk /\ a.series = b.series) => a.number # b.number
         /\ SeriesNumbers(invoices', i.series)
              = 1..Cardinality({j \in invoices' : j.series = i.series})]_vars

C10_Witness ==
  /\ Cardinality(invoices) = 2
  /\ SeriesNumbers(invoices, DefaultSeries) = {1, 2}

\* C11: a call returns the price of a matching active room-specific season
\* of the room when one exists, else the price of a matching active room-type
\* season of the room's type, else the base price; a season that is inactive,
\* does not cover the day or whose apply-on filter excludes the day's weekday
\* class never gives the price.
Applies(s, d) ==
  /\ s.active
  /\ s.start_date <= d /\ d <= s.end_date
  /\ \/ s.apply_on = "all"
     \/ s.apply_on = "weekdays" /\ weekday(d) \in 0..4
     \/ s.apply_on = "weekends" /\ weekday(d) \in 5..6

RoomTier(room, d) == {s \in seasons : s.room = room /\ Applies(s, d)}
TypeTier(room, d) == {s \in seasons : s.room = None /\ s.room_type = RoomType[room] /\ Applies(s, d)}

C11_MostSpecificSeasonWins ==
  quote # NoQuote =>
    IF RoomTier(quote.room, quote.day) # {}
    THEN \E s \in RoomTier(quote.room, quote.day) : quote.price = s.price
    ELSE IF TypeTier(quote.room, quote.day) # {}
    THEN \E s \in TypeTier(quote.room, quote.day) : quote.price = s.price
    ELSE quote.price = RoomPrice[quote.room]

C11_Witness ==
  /\ quote # NoQuote
  /\ RoomTier(quote.room, quote.day) # {}
  /\ TypeTier(quote.room, quote.day) # {}
  /\ \E s \in seasons : s.room = quote.room /\ ~Applies(s, quote.day)

\* C12: with unchanged season data two calls with the same room and date
\* return the same price, and the price is that of a matching season of the
\* winning tier with the latest start_date.
LatestStart(tier) == {s \in tier : \A t \in tier : t.start_date <= s.start_date}

C12_PriceIsFunctionOfRoomAndDate ==
  [][/\ (quote' # NoQuote /\ RoomTier(quote'.room, quote'.day) # {}) =>
          \E s \in LatestStart(RoomTier(quote'.room, quote'.day)) : quote'.price = s.price
     /\ (quote # NoQuote /\ quote'.room = quote.room /\ quote'.day = quote.day
         /\ seasons' = seasons) => quote'.price = quote.price]_vars

\* C13: at most one NightAudit row exists for a date, and a close request for
\* a date that is already closed creates no row, cancels no reservation and
\* changes no room status.
C13_CloseOncePerDate ==
  [][/\ \A a, b \in audits' : a.date = b.date => a = b
     /\ \A d \in Dates :
          (NightAuditClose(d) /\ \E a \in audits : a.date = d) =>
            UNCHANGED <<audits, reservations, room_status>>]_vars

C13_Witness ==
  /\ response = [op |-> "NightAuditClose", result |-> "already_closed"]
  /\ \E a \in audits : \E r \in reservations : r.check_in = a.date /\ r.status = BOOKED

\* C14: a successful close of date d cancels every reservation that was booked
\* with check_in = d, persists their number as no_shows, and changes the status
\* of no other reservation.
NoShowsAt(d) == {r \in reservations : r.check_in = d /\ r.status = BOOKED}

C14_CloseCancelsExactlyNoShows ==
  [][\A d \in Dates :
       (NightAuditClose(d) /\ response'.result = "ok") =>
         /\ \A r \in NoShowsAt(d) : [r EXCEPT !.status = CANCELED] \in reservations'
         /\ \E a \in audits' : a.date = d /\ a.no_shows = Cardinality(NoShowsAt(d))
         /\ \A r \in reservations \ NoShowsAt(d) : r \in reservations'
         /\ {r.pk : r \in reservations'} = PKs]_vars

C14_Witness ==
  /\ response = [op |-> "NightAuditClose", result |-> "ok"]
  /\ \E a \in audits : a.no_shows >= 1
  /\ \E r \in reservations : r.status = BOOKED

\* C15: the counts of a NightAudit row are all taken in the reservation state
\* after the no-show cancellations of its close: occupied_rooms, arrivals,
\* departures and stayovers.
C15_CountsAfterCancellations ==
  [][\A d \in Dates :
       (NightAuditClose(d) /\ response'.result = "ok") =>
         \E a \in audits' :
           /\ a.date = d
           /\ a.occupied_rooms =
                Cardinality({r.room : r \in {x \in reservations' :
                                /\ Active(x) /\ x.check_in <= d /\ d < x.check_out}})
           /\ a.arrivals = Cardinality({x \in reservations' : x.check_in = d /\ x.status # CANCELED})
           /\ a.departures = Cardinality({x \in reservations' : x.check_out = d /\ x.status # CANCELED})
           /\ a.stayovers = Cardinality({x \in reservations' :
                                /\ Active(x) /\ x.check_in < d /\ d < x.check_out})]_vars

\* C16: an update of a booked or checked_in reservation through the
\* reservation form, with valid dates and a room that no other active
\* reservation occupies in those dates, passes validation: the reservation's own
\* stored interval never makes the room unavailable.
C16_UpdateIgnoresOwnInterval ==
  [][\A pk \in PKs, room \in Rooms, iv \in Intervals :
       (/\ ReservationUpdate(pk, room, iv[1], iv[2], NoBreakfast)
        /\ Active(Stored(pk))
        /\ iv[1] < iv[2]
        /\ ~\E o \in reservations :
              /\ o.pk # pk /\ o.room = room /\ Active(o)
              /\ o.check_in < iv[2] /\ iv[1] < o.check_out)
       => response'.result = "ok"]_vars

\* C17: every stored invoice line has total_excl_vat = round2(quantity x
\* unit_price), vat_amount = round2(total_excl_vat x vat_rate / 100) and total =
\* round2(total_excl_vat + vat_amount), round2 rounding an exact half cent up.
RoundHalfUp(n, d) == (2 * n + d) \div (2 * d)

C17_LineAmountsRoundHalfUp ==
  \A i \in invoices : \A k \in 1..Len(lines[i.pk]) :
    LET l == lines[i.pk][k]
    IN  /\ l.total_excl_vat = RoundHalfUp(l.quantity * l.unit_price, 100)
        /\ l.vat_amount = RoundHalfUp(l.total_excl_vat * l.vat_rate, 10000)
        /\ l.total = RoundHalfUp(l.total_excl_vat + l.vat_amount, 1)

\* C18: a create or an update with check_in on or after check_out is rejected
\* and leaves the store as it was; every stored reservation has check_in before
\* check_out, and its nights value is check_out - check_in, at least 1.
C18_DatesOrdered ==
  [][/\ \A room \in Rooms, iv \in Intervals :
          (/\ iv[1] >= iv[2]
           /\ \/ \E st \in ReservationStatus : ReservationCreate(room, iv[1], iv[2], NoBreakfast, st)
              \/ PresenterCreate(room, iv[1], iv[2], NoBreakfast)
              \/ \E pk \in PKs : AdminEdit(pk, room, iv[1], iv[2]))
          => /\ UNCHANGED <<reservations, invoices, lines, room_status>>
             /\ response'.result \in {"ValidationError", "form_invalid"}
     /\ \A r \in reservations' :
          /\ r.check_in < r.check_out
          /\ nights(r) = r.check_out - r.check_in
          /\ nights(r) >= 1]_vars

C18_Witness ==
  /\ response = [op |-> "AdminEdit", result |-> "ValidationError"]
  /\ Cardinality(reservations) = 1
  /\ \A r \in reservations : nights(r) = MaxDate - 1

\* C19: saving a client leaves the billing snapshot of every locked invoice
\* as it was, gives every unlocked invoice of that client the client's new
\* billing values, and leaves the invoices of other clients unchanged.
Snapshot(i) == <<i.billing_name, i.billing_tax_id, i.billing_address>>

C19_ClientSaveSyncsUnlockedInvoices ==
  [][\A c \in ClientPKs, values \in BillingChoices :
       ClientSave(c, values) =>
         /\ {i.pk : i \in invoices'} = InvoicePKs
         /\ \A i \in invoices : \A n \in invoices' :
              n.pk = i.pk =>
                /\ i.locked => Snapshot(n) = Snapshot(i) /\ n.locked
                /\ (i.client = c /\ ~i.locked) =>
                     Snapshot(n) = <<values.name, values.tax_id, values.address>>
                /\ i.client # c => n = i]_vars

C19_Witness ==
  /\ response = [op |-> "ClientSave", result |-> "ok"]
  /\ \E i, j \in invoices :
       /\ i.client = j.client /\ i.locked /\ ~j.locked
       /\ Snapshot(i) # Snapshot(j)
       /\ \E c \in clients : c.pk = j.client /\ Snapshot(j) = <<c.name, c.tax_id, c.address>>

\* C20: deleting a room that has a reservation, or a client that has a
\* reservation or an invoice, is rejected and leaves every room, client,
\* reservation, invoice and invoice line as it was.
C20_ReferencedRowsCannotBeDeleted ==
  [][/\ \A room \in rooms :
          (RoomDelete(room) /\ \E r \in reservations : r.room = room) =>
            /\ response'.result = "ProtectedError"
            /\ UNCHANGED <<rooms, clients, reservations, invoices, lines>>
     /\ \A c \in ClientPKs :
          (/\ ClientDelete(c)
           /\ \/ \E r \in reservations : r.client = c
              \/ \E i \in invoices : i.client = c) =>
            /\ response'.result = "ProtectedError"
            /\ UNCHANGED <<rooms, clients, reservations, invoices, lines>>]_vars

\* C21: every stored rate season has a room or a room type, and an attempt
\* to store one with neither is rejected with a validation error and stores
\* nothing.
C21_SeasonHasTarget ==
  [][/\ \A s \in seasons' : s.room # None \/ s.room_type # ""
     /\ \A range \in SeasonRanges :
          (\/ RateSeasonAdminAdd(<<None, "">>, range)
           \/ \E pk \in SeasonPKs : RateSeasonAdminChange(pk, <<None, "">>, range))
          => /\ seasons' = seasons
             /\ response'.result \notin {"ok"}]_vars

C21_Witness ==
  /\ response.result = "Select a room or a room type."
  /\ Cardinality(seasons) = 1

\* C22: in every state reached through creation, the Presenter operations
\* and reservation deletion, a room with a checked_in reservation is occupied.
C22_CheckedInRoomIsOccupied ==
  \A r \in reservations : r.status = CHECKED_IN => room_status[r.room] = OCCUPIED

\* C23: deleting a reservation sets its room to available exactly when no
\* remaining reservation of the room is checked_in and the room is occupied;
\* otherwise (room cleaning, or another checked_in reservation) the room keeps
\* its status, and no other room changes.
C23_DeleteFreesOccupiedRoom ==
  [][\A pk \in PKs :
       ReservationDelete(pk) =>
         LET room == Stored(pk).room
             remaining == reservations \ {Stored(pk)}
             free == /\ ~\E o \in remaining : o.room = room /\ o.status = CHECKED_IN
                     /\ room_status[room] = OCCUPIED
         IN  /\ room_status'[room] = (IF free THEN AVAILABLE ELSE room_status[room])
             /\ \A other \in Rooms \ {room} : room_status'[other] = room_status[other]]_vars

\* The only reservation ever created, of room 101, was deleted while the room was cleaning.
C23_Witness ==
  /\ response.op = "ReservationDelete"
  /\ reservations = {}
  /\ next_pk.reservation = 2
  /\ room_status[101] = CLEANING

\* The lines ls are exactly the default lines of reservation res: for every
\* night one accommodation line of quantity 1 at the room's price of that
\* night and 9% VAT, one breakfast line iff breakfast is included at a price
\* above zero, and nothing else.
C24_DefaultLinesOf(ls, res) ==
  LET at(kind, d) == {k \in 1..Len(ls) : ls[k].kind = kind /\ ls[k].day = d}
      stay == res.check_in..(res.check_out - 1)
      with_breakfast == res.breakfast_included /\ res.breakfast_price > 0
  IN  /\ \A k \in 1..Len(ls) : ls[k].day \in stay /\ ls[k].kind \in {"Accommodation", "Breakfast"}
      /\ \A d \in stay :
           /\ Cardinality(at("Accommodation", d)) = 1
           /\ \A k \in at("Accommodation", d) :
                /\ ls[k].quantity = OneQuantity
                /\ ls[k].unit_price \in price_outcomes(seasons, res.room, d)
                /\ ls[k].vat_rate = DefaultVatRate
           /\ Cardinality(at("Breakfast", d)) = (IF with_breakfast THEN 1 ELSE 0)
           /\ \A k \in at("Breakfast", d) :
                /\ ls[k].quantity = OneQuantity
                /\ ls[k].unit_price = res.breakfast_price
                /\ ls[k].vat_rate = DefaultVatRate

\* C24: line generation creates exactly the default lines of the reservation
\* (at invoice creation and when run with overwrite, which replaces the
\* previous lines without duplicates); run again without overwrite on an
\* invoice that has lines it leaves the lines unchanged.
C24_LineGeneration ==
  [][/\ \A i \in invoices' \ invoices :
          C24_DefaultLinesOf(lines'[i.pk], CHOOSE r \in reservations' : r.pk = i.reservation)
     /\ \A inv \in InvoicePKs, overwrite \in BOOLEAN :
          BuildDefaultLines(inv, overwrite) =>
            IF ~overwrite /\ lines[inv] # <<>>
            THEN lines'[inv] = lines[inv]
            ELSE C24_DefaultLinesOf(lines'[inv],
                   CHOOSE r \in reservations : r.pk = StoredInvoice(inv).reservation)]_vars

\* Generation has run again on an invoice with a line edited by hand, for a
\* stay of two nights with breakfast.
C24_Witness ==
  /\ response.op = "BuildDefaultLines"
  /\ line_edits > 0
  /\ \E i \in invoices : \E r \in reservations :
       /\ r.pk = i.reservation
       /\ r.check_out - r.check_in = 2
       /\ r.breakfast_included /\ r.breakfast_price > 0
       /\ Len(lines[i.pk]) = 4

\* The reservation a handler inserted is in the store.
HandlerPersisted(h) ==
  \E r \in reservations : r.pk # None /\ r.pk = procs[h].instance.pk

\* C25: when two handlers concurrently create reservations of the same room
\* with overlapping intervals, at most one of the two is persisted, under
\* every interleaving of their steps.
C25_AtMostOneOverlappingCreate ==
  \A g, h \in DOMAIN procs :
    (/\ g # h
     /\ procs[g].instance.room = procs[h].instance.room
     /\ procs[g].instance.check_in < procs[h].instance.check_out
     /\ procs[h].instance.check_in < procs[g].instance.check_out)
    => ~(HandlerPersisted(g) /\ HandlerPersisted(h))

\* C26: when two invoices are created concurrently in the same series, no two
\* stored invoices share (series, number), and no handler ends with its
\* reservation committed without an invoice.
C26_ConcurrentInvoiceNumbers ==
  /\ \A i, j \in invoices : (i.pk # j.pk /\ i.series = j.series) => i.number # j.number
  /\ \A h \in DOMAIN procs :
       (procs[h].pc \in {"done", "failed"} /\ HandlerPersisted(h))
       => \E i \in invoices : i.reservation = procs[h].instance.pk

\* C27: when two close requests of the same date run concurrently, exactly
\* one NightAudit row of the date is committed, and the request that does not
\* create the row commits no reservation status change and no room status
\* change.
C27_ConcurrentCloseOnce ==
  [][/\ \A a, b \in audits' : a.date = b.date => a = b
     /\ \A h \in DOMAIN procs' :
          procs'[h].pc = "done" => \E a \in audits' : a.date = procs'[h].date
     /\ \A h \in Handlers :
          (CloseTransaction(h) /\ response'.result # "ok") =>
            UNCHANGED <<audits, reservations, room_status>>]_vars

\* Both requests passed the already-closed test; the second transaction found
\* a no-show to cancel and lost on the NightAudit insert.
C27_Witness ==
  /\ response = [op |-> "CloseTransaction", result |-> "IntegrityError"]
  /\ \E g, h \in DOMAIN procs :
       /\ g # h /\ procs[g].date = procs[h].date
       /\ procs[g].pc = "done" /\ procs[h].pc = "done"
       /\ \E r \in reservations : r.check_in = procs[h].date /\ r.status = BOOKED

\* C28: the availability query lists a room for [start, end) iff reservation
\* validation would accept a new reservation of the room for that range, that
\* is, iff no booked or checked_in reservation of the room overlaps the
\* half-open range (for the rooms of the requested type, if a type is given).
C28_AvailabilityMatchesValidation ==
  response.op = "AvailabilityQuery" =>
    \A room \in rooms :
      (listing.type = "" \/ RoomType[room] = listing.type) =>
        LET listed == \E x \in listing.rooms : x.id = room
            accepted == Reservation_clean(reservations,
                          Candidate(room, listing.start, listing.end, NoBreakfast, BOOKED))
            free == /\ listing.start < listing.end
                    /\ ~\E o \in reservations :
                          /\ o.room = room /\ Active(o)
                          /\ o.check_in < listing.end /\ listing.start < o.check_out
        IN  (listed <=> accepted) /\ (listed <=> free)

\* A query without type listed one room and left out the other, whose
\* reservation ends where another stay of the listed room's range begins.
C28_Witness ==
  /\ response = [op |-> "AvailabilityQuery", result |-> "ok"]
  /\ listing.type = ""
  /\ Cardinality(listing.rooms) = 1
  /\ \E x \in listing.rooms : \E o \in reservations :
       o.room = x.id /\ Active(o) /\ o.check_in = listing.end

\* C29: within a series, a number once assigned to an invoice is never later
\* assigned to a different invoice, also after reservations and their invoices
\* were deleted.
C29_NumberNeverReassigned ==
  \A a, b \in issued :
    (a.series = b.series /\ a.number = b.number) => a.invoice = b.invoice

\* C30: after a reservation's check_in, check_out or breakfast settings are
\* updated, its invoice has exactly one accommodation line per night of the
\* current stay (and one breakfast line per night iff breakfast is included
\* with price > 0), and the invoice total matches those lines.
C30_InvoiceFollowsStayEdits ==
  [][\A r \in reservations' :
       (/\ r.pk \in PKs
        /\ \/ r.check_in # Stored(r.pk).check_in
           \/ r.check_out # Stored(r.pk).check_out
           \/ r.breakfast_included # Stored(r.pk).breakfast_included
           \/ r.breakfast_price # Stored(r.pk).breakfast_price)
       => \A i \in invoices' :
            i.reservation = r.pk =>
              /\ C24_DefaultLinesOf(lines'[i.pk], r)
              /\ i.total = SumTotals(lines'[i.pk])]_vars

====
